---- MODULE Spec2Model ----
(***************************************************************************)
(* Books API: a FastAPI service over one SQLite table "books".             *)
(*                                                                         *)
(* A string is the sequence of its Unicode code points.  An optional JSON  *)
(* field, query parameter or header is Unset (absent), Null (JSON null) or *)
(* Some(v).  A row of the table is a record id/title/author/year/isbn,     *)
(* where isbn is Null or Some(string).  The table is the function `books`  *)
(* from the ids in use to their rows.                                      *)
(***************************************************************************)
EXTENDS Integers, Sequences, FiniteSets

\* books:   the rows of table "books", by id.
\* resp:    the last request and the response it got.
\* served:  how many requests have been answered (history).
\* deleted: the ids whose DELETE has answered 204 (history).
VARIABLES books, resp, served, deleted

vars == <<books, resp, served, deleted>>

(* ------------------------------ bounds --------------------------------- *)

\* Number of requests served in one behaviour.
MaxRequests == 2

(* --------------------------- program constants ------------------------- *)

API_KEY == "secret-api-key-12345"
TitleMin == 1
TitleMax == 200
AuthorMin == 1
AuthorMax == 100
YearMin == 1000
\* datetime.now().year, evaluated once when the schema class is built.
CurrentYear == 2026
IsbnMin == 10
IsbnMax == 13

HTTP_200 == 200
HTTP_201 == 201
HTTP_204 == 204
HTTP_403 == 403
HTTP_404 == 404
HTTP_422 == 422

(* ------------------------------ values --------------------------------- *)

Unset == [tag |-> "unset"]
Null == [tag |-> "null"]
Some(v) == [tag |-> "some", v |-> v]

IsSome(o) == o.tag = "some"

Rep(c, n) == [i \in 1..n |-> c]

Max(S) == CHOOSE m \in S : \A x \in S : x <= m

\* The ids of a table in ascending order (the rowid scan order of SQLite).
RECURSIVE SortedIds(_)
SortedIds(S) ==
  IF S = {} THEN <<>>
  ELSE LET m == Max(S) IN Append(SortedIds(S \ {m}), m)

(* ------------------------------ seed data ------------------------------ *)

SeedBooks ==
  << [title |-> <<1042, 1086, 1081, 1085, 1072, 32, 1080, 32, 1084, 1080, 1088>>,
      author |-> <<1051, 1077, 1074, 32, 1058, 1086, 1083, 1089, 1090, 1086, 1081>>,
      year |-> 1869,
      isbn |-> Some(<<57, 55, 56, 53, 49, 55, 48, 57, 56, 55, 54, 53, 52>>)],
     [title |-> <<1055, 1088, 1077, 1089, 1090, 1091, 1087, 1083, 1077, 1085, 1080,
                  1077, 32, 1080, 32, 1085, 1072, 1082, 1072, 1079, 1072, 1085, 1080,
                  1077>>,
      author |-> <<1060, 1077, 1076, 1086, 1088, 32, 1044, 1086, 1089, 1090, 1086,
                   1077, 1074, 1089, 1082, 1080, 1081>>,
      year |-> 1866,
      isbn |-> Some(<<57, 55, 56, 53, 49, 55, 48, 56, 55, 54, 53, 52, 51>>)],
     [title |-> <<1045, 1074, 1075, 1077, 1085, 1080, 1081, 32, 1054, 1085, 1077,
                  1075, 1080, 1085>>,
      author |-> <<1040, 1083, 1077, 1082, 1089, 1072, 1085, 1076, 1088, 32, 1055,
                   1091, 1096, 1082, 1080, 1085>>,
      year |-> 1833,
      isbn |-> Some(<<57, 55, 56, 53, 49, 55, 48, 55, 54, 53, 52, 51, 50>>)] >>

\* A row built from keyword data and inserted under the id the table assigns.
BookDB(id, data) ==
  [id |-> id, title |-> data.title, author |-> data.author,
   year |-> data.year, isbn |-> data.isbn]

\* INTEGER PRIMARY KEY without AUTOINCREMENT: the new rowid is one more than
\* the largest rowid in the table, and 1 in an empty table.
NextRowId(t) == IF DOMAIN t = {} THEN 1 ELSE Max(DOMAIN t) + 1

\* db.add + db.commit of one new row.
InsertRow(t, data) ==
  LET id == NextRowId(t) IN
  [i \in DOMAIN t \cup {id} |-> IF i = id THEN BookDB(id, data) ELSE t[i]]

\* Seeding of an empty table: the three initial books, inserted in order.
RECURSIVE InsertAll(_, _)
InsertAll(t, seq) ==
  IF seq = <<>> THEN t ELSE InsertAll(InsertRow(t, Head(seq)), Tail(seq))

EmptyTable == [i \in {} |-> 0]

initialize_db_data(t) == IF Cardinality(DOMAIN t) = 0 THEN InsertAll(t, SeedBooks) ELSE t

(* ------------------------------ schemas -------------------------------- *)

\* A JSON body: the five keys of the Book schema, each Unset, Null or Some.
Body(id, title, author, year, isbn) ==
  [id |-> id, title |-> title, author |-> author, year |-> year, isbn |-> isbn]

NoBody == Body(Unset, Unset, Unset, Unset, Unset)

LenIn(o, lo, hi) == IsSome(o) /\ lo <= Len(o.v) /\ Len(o.v) <= hi

NumIn(o, lo, hi) == IsSome(o) /\ lo <= o.v /\ o.v <= hi

\* Book: title, author and year are required; id and isbn default to None.
ValidBook(b) ==
  /\ LenIn(b.title, TitleMin, TitleMax)
  /\ LenIn(b.author, AuthorMin, AuthorMax)
  /\ NumIn(b.year, YearMin, CurrentYear)
  /\ (IsSome(b.isbn) => LenIn(b.isbn, IsbnMin, IsbnMax))

\* BookUpdate without the upper bound on year.
ValidBookUpdate_no_year_max(b) ==
  /\ (IsSome(b.title) => LenIn(b.title, TitleMin, TitleMax))
  /\ (IsSome(b.author) => LenIn(b.author, AuthorMin, AuthorMax))
  /\ (IsSome(b.year) => b.year.v >= YearMin)
  /\ (IsSome(b.isbn) => LenIn(b.isbn, IsbnMin, IsbnMax))

\* BookUpdate: every field is optional; a given non-null value is bounded.
ValidBookUpdate(b) ==
  /\ (IsSome(b.title) => LenIn(b.title, TitleMin, TitleMax))
  /\ (IsSome(b.author) => LenIn(b.author, AuthorMin, AuthorMax))
  /\ (IsSome(b.year) => NumIn(b.year, YearMin, CurrentYear))
  /\ (IsSome(b.isbn) => LenIn(b.isbn, IsbnMin, IsbnMax))

\* A dump that loses the isbn.
BookDump_no_isbn(b) ==
  [title |-> b.title.v, author |-> b.author.v, year |-> b.year.v, isbn |-> Null]

\* Book.model_dump(exclude={"id"}) of a validated body: the four data fields,
\* an omitted or null isbn being None.
BookDump(b) ==
  [title |-> b.title.v, author |-> b.author.v, year |-> b.year.v,
   isbn |-> IF IsSome(b.isbn) THEN b.isbn ELSE Null]

(* --------------------------- authentication ---------------------------- *)

\* A check that only asks for the header to be present.
verify_api_key_present(key) == IsSome(key)

\* APIKeyHeader(auto_error=True) refuses a request without the header, and
\* verify_api_key refuses a key that differs from API_KEY: both answer 403.
verify_api_key(key) == IsSome(key) /\ key.v = API_KEY

(* ------------------------------ queries -------------------------------- *)

DefaultSkip == 0
DefaultLimit == 10

\* The query string of GET /api/books; an Unset parameter takes its default.
Query(skip, limit, author, year_from, year_to) ==
  [skip |-> skip, limit |-> limit, author |-> author,
   year_from |-> year_from, year_to |-> year_to]

NoQuery == Query(Unset, Unset, Unset, Unset, Unset)

\* lower() of SQLite folds the 26 ASCII capitals only.
AsciiLower(c) == IF 65 <= c /\ c <= 90 THEN c + 32 ELSE c

sqlite_lower(s) == [i \in 1..Len(s) |-> AsciiLower(s[i])]

\* LIKE of SQLite: % matches any run of characters, _ any one character, and
\* any other character matches itself up to ASCII case.
RECURSIVE sqlite_like(_, _)
sqlite_like(pat, s) ==
  IF pat = <<>> THEN s = <<>>
  ELSE IF Head(pat) = 37
    THEN \/ Tail(pat) = <<>>
         \/ \E k \in 0..Len(s) : sqlite_like(Tail(pat), SubSeq(s, k + 1, Len(s)))
  ELSE IF s = <<>> THEN FALSE
  ELSE IF Head(pat) = 95 THEN sqlite_like(Tail(pat), Tail(s))
  ELSE AsciiLower(Head(pat)) = AsciiLower(Head(s)) /\ sqlite_like(Tail(pat), Tail(s))

\* column.ilike(f"%{author}%"), compiled for SQLite as lower(column) LIKE lower(?).
ilike(column, author) ==
  sqlite_like(sqlite_lower(<<37>> \o author \o <<37>>), sqlite_lower(column))

\* Python truthiness of an optional string / optional integer parameter.
TruthyStr(o) == IsSome(o) /\ o.v # <<>>

TruthyInt(o) == IsSome(o) /\ o.v # 0

\* The WHERE clause get_books builds from the filters it is given.
Matches(row, q) ==
  /\ (TruthyStr(q.author) => ilike(row.author, q.author.v))
  /\ (TruthyInt(q.year_from) => row.year >= q.year_from.v)
  /\ (TruthyInt(q.year_to) => row.year <= q.year_to.v)

AllRows(t) == LET ids == SortedIds(DOMAIN t) IN [i \in 1..Len(ids) |-> t[ids[i]]]

Filtered(t, q) == LET m(row) == Matches(row, q) IN SelectSeq(AllRows(t), m)

\* OFFSET and LIMIT of SQLite: a negative OFFSET counts as 0 and a negative
\* LIMIT means no upper bound.
OffsetLimit(rows, skip, limit) ==
  LET off == IF skip < 0 THEN 0 ELSE skip
      rest == SubSeq(rows, off + 1, Len(rows))
  IN IF limit < 0 \/ limit >= Len(rest) THEN rest ELSE SubSeq(rest, 1, limit)

QuerySkip(q) == IF IsSome(q.skip) THEN q.skip.v ELSE DefaultSkip

QueryLimit(q) == IF IsSome(q.limit) THEN q.limit.v ELSE DefaultLimit

\* query.offset(skip).limit(limit).all()
Select(t, q) == OffsetLimit(Filtered(t, q), QuerySkip(q), QueryLimit(q))

(* ------------------------------ statistics ----------------------------- *)

Century(year) == (year \div 100) + 1

\* Counter(book.author ...) and Counter(book.year // 100 + 1 ...).
CountAuthor(t, a) == Cardinality({i \in DOMAIN t : t[i].author = a})

CountCentury(t, c) == Cardinality({i \in DOMAIN t : Century(t[i].year) = c})

\* total_books, Counter of authors, Counter of centuries.
Statistics(t) ==
  [total_books |-> Cardinality(DOMAIN t),
   books_by_author |-> [a \in {t[i].author : i \in DOMAIN t} |-> CountAuthor(t, a)],
   books_by_century |->
     [c \in {Century(t[i].year) : i \in DOMAIN t} |-> CountCentury(t, c)]]

(* ------------------------- row updates (PUT, PATCH) -------------------- *)

DataFields == {"title", "author", "year", "isbn"}

\* A PUT that leaves the isbn alone when the body has none.
ApplyPut_keep_isbn(row, b) ==
  LET data == BookDump(b) IN
  [row EXCEPT !.title = data.title, !.author = data.author, !.year = data.year,
              !.isbn = IF IsSome(b.isbn) THEN data.isbn ELSE @]

\* setattr of every field of model_dump(exclude={"id"}) on the row.
ApplyPut(row, b) ==
  LET data == BookDump(b) IN
  [row EXCEPT !.title = data.title, !.author = data.author,
              !.year = data.year, !.isbn = data.isbn]

\* model_dump(exclude_unset=True): the BookUpdate fields the body gave
\* (BookUpdate has no id field, so a body id is dropped by the schema).
UpdateData(b) == {f \in DataFields : b[f].tag # "unset"}

\* A PATCH that also writes a null isbn.
ApplyPatch_clear_isbn(row, b) ==
  [f \in DOMAIN row |->
     IF f \in UpdateData(b) /\ (b[f].tag # "null" \/ f = "isbn")
       THEN (IF f = "isbn" THEN b[f] ELSE b[f].v)
       ELSE row[f]]

\* setattr of the given fields whose value is not None.
ApplyPatch(row, b) ==
  [f \in DOMAIN row |->
     IF f \in UpdateData(b) /\ b[f].tag # "null"
       THEN (IF f = "isbn" THEN b[f] ELSE b[f].v)
       ELSE row[f]]

\* A delete that is never committed.
DeleteRow_uncommitted(t, id) == t

\* db.delete(db_book) + db.commit()
DeleteRow(t, id) == [i \in DOMAIN t \ {id} |-> t[i]]

\* A query without its filter: the first row of the table.
Lookup_unfiltered(t, book_id) ==
  IF DOMAIN t = {} THEN <<>> ELSE <<t[CHOOSE i \in DOMAIN t : \A j \in DOMAIN t : i <= j]>>

\* db.query(BookDB).filter(BookDB.id == book_id).first(): the row in a list of
\* one, or the empty list for None.
Lookup(t, book_id) == IF book_id \in DOMAIN t THEN <<t[book_id]>> ELSE <<>>

\* db.commit() of a changed row object: the row is written back under its id.
Store(t, row) == [t EXCEPT ![row.id] = row]

(* ------------------------------ requests ------------------------------- *)

WrongKey == "wrong-key"

\* The X-API-Key header of a request: absent, wrong or right.
Keys == {Unset, Some(WrongKey), Some(API_KEY)}

\* Path ids: the ids of the seeded books and the first id a create adds.
PathIds == 1..(Len(SeedBooks) + 1)

Str(c, n) == Some(Rep(c, n))

\* "Leo": an author with an ASCII capital.
Leo == <<76, 101, 111>>

\* Bodies that satisfy the Book schema: one at the lower bounds without id and
\* isbn, and one at the upper bounds that carries the id of another book.
LowBook == Body(Unset, Str(97, TitleMin), Some(Leo), Some(YearMin), Unset)

HighBook ==
  Body(Some(1), Str(97, TitleMax), Str(98, AuthorMax), Some(CurrentYear),
       Str(48, IsbnMax))

ValidBooks == {LowBook, HighBook}

\* Bodies that break one rule of the Book schema each.
InvalidBooks ==
  {[HighBook EXCEPT !.title = t] : t \in {Unset, Str(97, TitleMax + 1)}}
  \cup {[HighBook EXCEPT !.author = a] : a \in {Str(98, AuthorMin - 1)}}
  \cup {[HighBook EXCEPT !.year = y] : y \in {Some(YearMin - 1), Some(CurrentYear + 1)}}
  \cup {[HighBook EXCEPT !.isbn = i] : i \in {Str(48, IsbnMin - 1), Str(48, IsbnMax + 1)}}

BookBodies == ValidBooks \cup InvalidBooks

\* PATCH bodies: the empty object, single fields, nulls beside a value, an
\* extra id key, and bodies that break one rule of BookUpdate.
ValidPatches ==
  { NoBody,
    [NoBody EXCEPT !.title = Str(122, TitleMin)],
    [NoBody EXCEPT !.title = Null, !.isbn = Null, !.year = Some(CurrentYear)],
    [NoBody EXCEPT !.id = Some(1), !.author = Some(Leo), !.isbn = Str(49, IsbnMin)] }

InvalidPatches ==
  { [NoBody EXCEPT !.title = Str(97, TitleMax + 1)],
    [NoBody EXCEPT !.author = Str(98, AuthorMin - 1)],
    [NoBody EXCEPT !.year = Some(CurrentYear + 1)],
    [NoBody EXCEPT !.isbn = Str(48, IsbnMin - 1), !.title = Str(122, TitleMin)] }

PatchBodies == ValidPatches \cup InvalidPatches

\* What the server answered last, together with the request it answered.
Response(op, key, id, body, query, status, items, stats) ==
  [op |-> op, key |-> key, id |-> id, body |-> body, query |-> query,
   status |-> status, items |-> items, stats |-> stats]

NoResponse == Response("none", Unset, 0, NoBody, NoQuery, 0, <<>>, <<>>)

Answer(r) == resp' = r /\ served' = served + 1

(* ------------------------------ read endpoints ------------------------- *)

\* GET /
root(key) ==
  /\ served < MaxRequests
  /\ Answer(Response("root", key, 0, NoBody, NoQuery, HTTP_200, <<>>, <<>>))
  /\ UNCHANGED <<books, deleted>>

\* GET /api/books
get_books(key, q) ==
  /\ served < MaxRequests
  /\ Answer(Response("get_books", key, 0, NoBody, q, HTTP_200, Select(books, q), <<>>))
  /\ UNCHANGED <<books, deleted>>

\* GET /api/books/stats
get_statistics(key) ==
  /\ served < MaxRequests
  /\ Answer(Response("get_statistics", key, 0, NoBody, NoQuery, HTTP_200, <<>>,
                     <<Statistics(books)>>))
  /\ UNCHANGED <<books, deleted>>

\* What GET /api/books/{book_id} answers on table t.
get_book_answer(key, t, book_id) ==
  LET book == Lookup(t, book_id) IN
  IF book = <<>>
    THEN Response("get_book", key, book_id, NoBody, NoQuery, HTTP_404, <<>>, <<>>)
    ELSE Response("get_book", key, book_id, NoBody, NoQuery, HTTP_200, book, <<>>)

\* get_book behind the api_key dependency of the write endpoints.
get_book_guarded(key, book_id) ==
  /\ served < MaxRequests
  /\ IF verify_api_key(key)
       THEN Answer(get_book_answer(key, books, book_id))
       ELSE Answer(Response("get_book", key, book_id, NoBody, NoQuery, HTTP_403, <<>>, <<>>))
  /\ UNCHANGED <<books, deleted>>

\* GET /api/books/{book_id}
get_book(key, book_id) ==
  /\ served < MaxRequests
  /\ Answer(get_book_answer(key, books, book_id))
  /\ UNCHANGED <<books, deleted>>

(* ------------------------------ write endpoints ------------------------ *)

\* A request the framework answers before the handler runs: 403 from the
\* api_key dependency, else 422 from the body schema.
Refused(op, key, id, body, valid) ==
  IF ~verify_api_key(key)
    THEN Answer(Response(op, key, id, body, NoQuery, HTTP_403, <<>>, <<>>))
    ELSE ~valid /\ Answer(Response(op, key, id, body, NoQuery, HTTP_422, <<>>, <<>>))

Admitted(key, valid) == verify_api_key(key) /\ valid

\* POST /api/books
create_book(key, book) ==
  /\ served < MaxRequests
  /\ \/ /\ Refused("create_book", key, 0, book, ValidBook(book))
        /\ UNCHANGED <<books, deleted>>
     \/ /\ Admitted(key, ValidBook(book))
        /\ books' = InsertRow(books, BookDump(book))
        /\ Answer(Response("create_book", key, 0, book, NoQuery, HTTP_201,
                           Lookup(books', NextRowId(books)), <<>>))
        /\ UNCHANGED deleted

\* PUT /api/books/{book_id}
update_book(key, book_id, updated_book) ==
  /\ served < MaxRequests
  /\ \/ /\ Refused("update_book", key, book_id, updated_book, ValidBook(updated_book))
        /\ UNCHANGED <<books, deleted>>
     \/ /\ Admitted(key, ValidBook(updated_book))
        /\ LET db_book == Lookup(books, book_id) IN
           IF db_book = <<>>
             THEN /\ Answer(Response("update_book", key, book_id, updated_book, NoQuery,
                                     HTTP_404, <<>>, <<>>))
                  /\ UNCHANGED books
             ELSE /\ books' = Store(books, ApplyPut(db_book[1], updated_book))
                  /\ Answer(Response("update_book", key, book_id, updated_book, NoQuery,
                                     HTTP_200, Lookup(books', db_book[1].id), <<>>))
        /\ UNCHANGED deleted

\* PATCH /api/books/{book_id}
partial_update_book(key, book_id, book_update) ==
  /\ served < MaxRequests
  /\ \/ /\ Refused("partial_update_book", key, book_id, book_update,
                   ValidBookUpdate(book_update))
        /\ UNCHANGED <<books, deleted>>
     \/ /\ Admitted(key, ValidBookUpdate(book_update))
        /\ LET db_book == Lookup(books, book_id) IN
           IF db_book = <<>>
             THEN /\ Answer(Response("partial_update_book", key, book_id, book_update,
                                     NoQuery, HTTP_404, <<>>, <<>>))
                  /\ UNCHANGED books
             ELSE /\ books' = Store(books, ApplyPatch(db_book[1], book_update))
                  /\ Answer(Response("partial_update_book", key, book_id, book_update,
                                     NoQuery, HTTP_200, Lookup(books', db_book[1].id), <<>>))
        /\ UNCHANGED deleted

\* DELETE /api/books/{book_id}
delete_book(key, book_id) ==
  /\ served < MaxRequests
  /\ \/ /\ Refused("delete_book", key, book_id, NoBody, TRUE)
        /\ UNCHANGED <<books, deleted>>
     \/ /\ Admitted(key, TRUE)
        /\ LET db_book == Lookup(books, book_id) IN
           IF db_book = <<>>
             THEN /\ Answer(Response("delete_book", key, book_id, NoBody, NoQuery,
                                     HTTP_404, <<>>, <<>>))
                  /\ UNCHANGED <<books, deleted>>
             ELSE /\ books' = DeleteRow(books, db_book[1].id)
                  /\ deleted' = deleted \cup {book_id}
                  /\ Answer(Response("delete_book", key, book_id, NoBody, NoQuery,
                                     HTTP_204, <<>>, <<>>))

(* ------------------------------ specification -------------------------- *)

\* The table after database.py has run on a fresh database file.
Init ==
  /\ books = initialize_db_data(EmptyTable)
  /\ resp = NoResponse
  /\ served = 0
  /\ deleted = {}

Root == \E key \in Keys : root(key)

GetBooks == \E key \in Keys : get_books(key, NoQuery)

GetStatistics == \E key \in Keys : get_statistics(key)

GetBook == \E key \in Keys, id \in PathIds : get_book(key, id)

CreateBook == \E key \in Keys, b \in BookBodies : create_book(key, b)

UpdateBook == \E key \in Keys, id \in PathIds, b \in BookBodies : update_book(key, id, b)

PartialUpdateBook ==
  \E key \in Keys, id \in PathIds, b \in PatchBodies : partial_update_book(key, id, b)

DeleteBook == \E key \in Keys, id \in PathIds : delete_book(key, id)

Next ==
  \/ Root
  \/ GetBooks
  \/ GetStatistics
  \/ GetBook
  \/ CreateBook
  \/ UpdateBook
  \/ PartialUpdateBook
  \/ DeleteBook

Spec == Init /\ [][Next]_vars

(* ------------------- GET /api/books over its query string -------------- *)

\* "leo", the Cyrillic "толстой" in lower case, and "_".
AuthorFilters ==
  {Unset, Some(<<>>), Some(<<108, 101, 111>>),
   Some(<<1090, 1086, 1083, 1089, 1090, 1086, 1081>>), Some(<<95>>)}

Queries ==
  {Query(skip, limit, author, year_from, year_to) :
     skip \in {Unset, Some(-1), Some(1)},
     limit \in {Unset, Some(-1), Some(0), Some(2)},
     author \in AuthorFilters,
     year_from \in {Unset, Some(0), Some(1866)},
     year_to \in {Unset, Some(0), Some(1866)}}

ListBooks == \E q \in Queries : get_books(Unset, q)

\* Any query on the stores that a create, a PATCH or a delete produces.
ListNext ==
  \/ ListBooks
  \/ CreateBook
  \/ PartialUpdateBook
  \/ DeleteBook

ListSpec == Init /\ [][ListNext]_vars

(* ------------------------------ properties ----------------------------- *)

WriteOps == {"create_book", "update_book", "partial_update_book", "delete_book"}

ReadOps == {"root", "get_books", "get_statistics", "get_book"}

Authenticated(r) == r.key = Some(API_KEY)

\* The row carries the title, author, year and isbn of body b, an isbn that
\* is omitted or null being null.
SameFields(row, b) ==
  /\ row.title = b.title.v
  /\ row.author = b.author.v
  /\ row.year = b.year.v
  /\ row.isbn = (IF b.isbn.tag = "some" THEN b.isbn ELSE Null)

\* Every book of t that is in u as well is the same in both.
Untouched(t, u, except) ==
  \A i \in (DOMAIN t \cap DOMAIN u) \ except : t[i] = u[i]

C2_DeletedIdAlwaysNotFound ==
  \A id \in deleted : get_book_answer(Unset, books, id).status = HTTP_404

CreatedAs(r, id) ==
  r.op = "create_book" /\ r.status = HTTP_201 /\ r.items[1].id = id

\* C2 amended: a DELETE that answers 204 leaves GET of that id answering 404,
\* and GET of a deleted id keeps answering 404 across every request except a
\* POST that creates a book under that very id.
C2_DeletedIdNotFoundUntilReissued ==
  [][/\ (resp'.op = "delete_book" /\ resp'.status = HTTP_204)
          => get_book_answer(Unset, books', resp'.id).status = HTTP_404
     /\ \A id \in deleted :
          (get_book_answer(Unset, books, id).status = HTTP_404 /\ ~CreatedAs(resp', id))
            => get_book_answer(Unset, books', id).status = HTTP_404]_vars

\* A GET of an id whose DELETE answered 204 was answered 404.
C2_Witness ==
  /\ resp.op = "get_book"
  /\ resp.id \in deleted
  /\ resp.status = HTTP_404

\* C3: an authenticated POST of a valid body answers 201 with a book stored
\* under an id that was not in use, whatever id the body carries, and changes
\* no other book; a GET of the returned id right after it answers 200 with
\* the title, author, year and isbn that were posted.
C3_CreateThenGet ==
  [][/\ (resp'.op = "create_book" /\ Authenticated(resp') /\ ValidBook(resp'.body))
          => resp'.status = HTTP_201
     /\ (resp'.op = "create_book" /\ resp'.status = HTTP_201)
          => /\ resp'.items[1].id \notin DOMAIN books
             /\ DOMAIN books' = DOMAIN books \cup {resp'.items[1].id}
             /\ Untouched(books, books', {})
             /\ SameFields(resp'.items[1], resp'.body)
     /\ (resp.op = "create_book" /\ resp.status = HTTP_201
           /\ resp'.op = "get_book" /\ resp'.id = resp.items[1].id)
          => /\ resp'.status = HTTP_200
             /\ resp'.items[1].id = resp'.id
             /\ SameFields(resp'.items[1], resp.body)]_vars

\* The second request of a run is a GET that found a book under the first id
\* beyond the seed: the book the first request, a POST, created.
C3_Witness ==
  /\ served = 2
  /\ resp.op = "get_book"
  /\ resp.status = HTTP_200
  /\ resp.id = Len(SeedBooks) + 1

\* C4: an authenticated PUT of a valid body on a stored id answers 200, and a
\* GET of that id right after it answers 200 with exactly the title, author,
\* year and isbn of the PUT body (null for an omitted isbn) under the path id.
C4_UpdateThenGet ==
  [][/\ (resp'.op = "update_book" /\ Authenticated(resp') /\ ValidBook(resp'.body)
           /\ resp'.id \in DOMAIN books)
          => (resp'.status = HTTP_200 /\ DOMAIN books' = DOMAIN books)
     /\ (resp.op = "update_book" /\ resp.status = HTTP_200
           /\ resp'.op = "get_book" /\ resp'.id = resp.id)
          => /\ resp'.status = HTTP_200
             /\ resp'.items[1].id = resp.id
             /\ SameFields(resp'.items[1], resp.body)]_vars

\* The second request of a run is a GET of book 2 that shows the fields of a
\* PUT body which carried the id 1.
C4_Witness ==
  /\ served = 2
  /\ resp.op = "get_book"
  /\ resp.status = HTTP_200
  /\ resp.id = 2
  /\ HighBook.id = Some(1)
  /\ SameFields(resp.items[1], HighBook)

Max0(a) == IF a < 0 THEN 0 ELSE a

\* The items of page that come after the first skip ones, limit of them at most.
ClaimedPage(rows, skip, limit) ==
  LET idx == {p \in 1..Len(rows) : p > Max0(skip) /\ p <= Max0(skip) + limit}
  IN [k \in 1..Cardinality(idx) |-> rows[Max0(skip) + k]]

\* C5: for every integer skip and limit, GET /api/books returns at most limit
\* items, and they are the items of the filtered result from position skip on.
C5_AtMostLimitFromSkip ==
  resp.op = "get_books" =>
    LET rows == Filtered(books, resp.query)
        skip == QuerySkip(resp.query)
        limit == QueryLimit(resp.query)
    IN /\ Len(resp.items) <= limit
       /\ resp.items = ClaimedPage(rows, skip, limit)

IdRequest(r) ==
  \/ r.op = "get_book"
  \/ r.op \in {"update_book", "partial_update_book", "delete_book"} /\ Authenticated(r)

\* C6 as stated: GET, and authenticated PUT, PATCH and DELETE, answer 404
\* exactly when the path id is not stored, and a 404 changes no book.
C6_NotFoundIffAbsent ==
  [][IdRequest(resp')
       => /\ (resp'.status = HTTP_404) <=> (resp'.id \notin DOMAIN books)
          /\ (resp'.status = HTTP_404) => (books' = books)]_vars

PassesSchema(r) ==
  /\ r.op = "update_book" => ValidBook(r.body)
  /\ r.op = "partial_update_book" => ValidBookUpdate(r.body)

\* C6 amended: GET, authenticated DELETE, and authenticated PUT and PATCH
\* whose body passes the schema, answer 404 exactly when the path id is not
\* stored; a PUT or PATCH whose body fails the schema answers 422 whether or
\* not the id is stored; and a 404 changes no book.
C6_NotFoundIffAbsentAndBodyValid ==
  [][IdRequest(resp')
       => /\ PassesSchema(resp')
               => ((resp'.status = HTTP_404) <=> (resp'.id \notin DOMAIN books))
          /\ ~PassesSchema(resp') => resp'.status = HTTP_422
          /\ (resp'.status = HTTP_404) => (books' = books)]_vars

\* An authenticated PUT of a valid body on an id that is not stored was
\* answered 404.
C6_Witness ==
  /\ resp.op = "update_book"
  /\ Authenticated(resp)
  /\ ValidBook(resp.body)
  /\ resp.id \notin DOMAIN books
  /\ resp.status = HTTP_404

\* C7: GET /, GET /api/books, GET /api/books/stats and GET /api/books/{id} are
\* answered whatever the X-API-Key header is (200, or 404 for a GET of an id
\* that is not stored) and change no stored book.
C7_ReadsPublicAndPure ==
  [][resp'.op \in ReadOps
       => /\ books' = books
          /\ IF resp'.op = "get_book" /\ resp'.id \notin DOMAIN books
               THEN resp'.status = HTTP_404
               ELSE resp'.status = HTTP_200]_vars

\* A GET of a stored book without the header was answered 200 with the book.
C7_Witness ==
  /\ resp.op = "get_book"
  /\ resp.key = Unset
  /\ resp.status = HTTP_200
  /\ resp.items = <<books[resp.id]>>

RowInBounds(row) ==
  /\ TitleMin <= Len(row.title) /\ Len(row.title) <= TitleMax
  /\ AuthorMin <= Len(row.author) /\ Len(row.author) <= AuthorMax
  /\ YearMin <= row.year /\ row.year <= CurrentYear
  /\ row.isbn = Null \/ (IsbnMin <= Len(row.isbn.v) /\ Len(row.isbn.v) <= IsbnMax)

AllInBounds(t) == \A i \in DOMAIN t : RowInBounds(t[i])

\* The body gives a field a value outside its bounds.
BreaksBound(b) ==
  \/ b.title.tag = "some" /\ ~(TitleMin <= Len(b.title.v) /\ Len(b.title.v) <= TitleMax)
  \/ b.author.tag = "some" /\ ~(AuthorMin <= Len(b.author.v) /\ Len(b.author.v) <= AuthorMax)
  \/ b.year.tag = "some" /\ ~(YearMin <= b.year.v /\ b.year.v <= CurrentYear)
  \/ b.isbn.tag = "some" /\ ~(IsbnMin <= Len(b.isbn.v) /\ Len(b.isbn.v) <= IsbnMax)

Fold(c) ==
  IF (65 <= c /\ c <= 90) \/ (1040 <= c /\ c <= 1071) THEN c + 32 ELSE c

\* s contains sub, case-insensitively.
ContainsFold(s, sub) ==
  \E k \in 0..(Len(s) - Len(sub)) : \A j \in 1..Len(sub) : Fold(s[k + j]) = Fold(sub[j])

\* The filters as C9 states them: each one applied exactly when it is given.
ClaimedMatch(row, q) ==
  /\ q.year_from.tag = "some" => row.year >= q.year_from.v
  /\ q.year_to.tag = "some" => row.year <= q.year_to.v
  /\ q.author.tag = "some" => ContainsFold(row.author, q.author.v)

ClaimedFiltered(t, q) == LET m(row) == ClaimedMatch(row, q) IN SelectSeq(AllRows(t), m)

\* C9: before pagination, GET /api/books selects exactly the books with
\* year >= year_from and year <= year_to (each bound when given) whose author
\* contains the author parameter case-insensitively (when given), and no
\* returned book violates a filter that was given.
C9_FiltersExact ==
  resp.op = "get_books" =>
    /\ resp.items = OffsetLimit(ClaimedFiltered(books, resp.query),
                                QuerySkip(resp.query), QueryLimit(resp.query))
    /\ \A k \in 1..Len(resp.items) : ClaimedMatch(resp.items[k], resp.query)

\* C10: an authenticated PATCH that answers 200 sets exactly the fields the
\* body gives with a non-null value; a field that is absent or null keeps its
\* value, the id stays the path id, and every other book stays as it was.
C10_PatchChangesOnlyGivenFields ==
  [][(resp'.op = "partial_update_book" /\ resp'.status = HTTP_200)
       => /\ DOMAIN books' = DOMAIN books
          /\ resp'.id \in DOMAIN books
          /\ Untouched(books, books', {resp'.id})
          /\ books'[resp'.id].id = resp'.id
          /\ resp'.items = <<books'[resp'.id]>>
          /\ \A f \in {"title", "author", "year"} :
               books'[resp'.id][f] =
                 IF resp'.body[f].tag = "some" THEN resp'.body[f].v ELSE books[resp'.id][f]
          /\ books'[resp'.id].isbn =
               IF resp'.body.isbn.tag = "some" THEN resp'.body.isbn ELSE books[resp'.id].isbn]_vars

\* A PATCH with a null title, a null isbn and a new year answered 200 with
\* the new year, the old title and the old isbn.
C10_Witness ==
  /\ resp.op = "partial_update_book"
  /\ resp.status = HTTP_200
  /\ resp.id \in 1..Len(SeedBooks)
  /\ resp.body.title = Null
  /\ resp.body.isbn = Null
  /\ resp.body.year = Some(CurrentYear)
  /\ resp.items[1].year = CurrentYear
  /\ resp.items[1].isbn = SeedBooks[resp.id].isbn
  /\ resp.items[1].title = SeedBooks[resp.id].title

====
